---------------------------- MODULE Spec2Model ----------------------------
(***************************************************************************)
(* Recipe catalog backend: the in-memory record store (storage.ts), the    *)
(* recipe schema (shared/schema) and the five recipe route handlers        *)
(* (routes.ts) with their image files in the uploads directory.            *)
(*                                                                         *)
(* A handler is an async function: it runs without interruption up to an   *)
(* await, and other handlers may run before it resumes.  Each action below *)
(* is one such uninterrupted segment of a handler, including the           *)
(* synchronous part of every store method it calls.                        *)
(*                                                                         *)
(* Not modelled: the account half of the store, the ?category= and         *)
(* ?search= variants of the list route, the text fields description and    *)
(* notes (plain strings like title), multer's size and MIME filters (they  *)
(* reject a request before its handler runs).                              *)
(***************************************************************************)
EXTENDS Integers, Sequences, FiniteSets, TLC

VARIABLES
    recipes,          \* MemStorage.recipes: a Map, kept in insertion order
    currentRecipeId,  \* MemStorage.currentRecipeId
    disk,             \* the uploads directory: numbers of the files on disk
    nuploads,         \* files multer has written so far (names are fresh)
    clock,            \* Date.now(), as an index into IsoTable
    reqs,             \* the handlers in flight, one per slot
    issued,           \* requests received so far
    faults,           \* filesystem failures injected so far
    lastResp,         \* the HTTP response sent last
    unanswered,       \* requests whose handler rejected without a response
    created,          \* history: the ids createRecipe returned, in order
    deleted204        \* history: ids whose DELETE was answered 204

vars == <<recipes, currentRecipeId, disk, nuploads, clock, reqs, issued,
          faults, lastResp, unanswered, created, deleted204>>

----------------------------------------------------------------------------
\* Bounds of the model.

MaxRequests == 3
MaxInFlight == 2
MaxClock == 2
MaxFsFaults == 1

Slots == 1..MaxInFlight

----------------------------------------------------------------------------
\* Values.

RECIPE_CATEGORIES == {"breakfast", "lunch", "dinner", "desserts", "drinks", "other"}

Fields == {"id", "title", "category", "cookTimeMinutes", "ingredients",
           "steps", "imageUrl", "createdAt"}

\* InsertRecipe: the columns of the recipes table without id.
InsertFields == Fields \ {"id"}

\* notNull columns of the insert schema (imageUrl is nullable, so optional).
RequiredFields == InsertFields \ {"imageUrl"}

\* A field that is absent from an object reads as undefined.
Undefined == "undefined"

\* What Map.get returns for a missing key.
Absent == [absent |-> TRUE]

\* JavaScript numbers that may be NaN.
Num(n) == [nan |-> FALSE, v |-> n]
NaN == [nan |-> TRUE, v |-> 0]

\* new Date(ms).toISOString() for the instants of the model.
IsoTable == << "2026-01-01T00:00:00.001Z", "2026-01-01T00:00:00.002Z",
               "2026-01-01T00:00:00.003Z", "2026-01-01T00:00:00.004Z" >>

toISOString(t) == IsoTable[t]

\* new Date(s).getTime(): the instant an ISO string names, NaN for any other
\* string.
DateGetTime(s) ==
    IF \E t \in 1..Len(IsoTable) : IsoTable[t] = s
    THEN Num(CHOOSE t \in 1..Len(IsoTable) : IsoTable[t] = s)
    ELSE NaN

\* `/uploads/${req.file.filename}` for the k-th file multer writes.
UrlTable == << "/uploads/recipe-1.png", "/uploads/recipe-2.png",
               "/uploads/recipe-3.png", "/uploads/recipe-4.png",
               "/uploads/recipe-5.png" >>

UploadUrl(k) == UrlTable[k]

\* path.resolve(cwd, 'dist/public', url.replace(/^\//, '')): the number of
\* the uploads file the URL names, 0 for a path that is no such file.
ResolvePath(url) ==
    IF \E k \in 1..Len(UrlTable) : UrlTable[k] = url
    THEN CHOOSE k \in 1..Len(UrlTable) : UrlTable[k] = url
    ELSE 0

\* if (existingRecipe.imageUrl): undefined and "" are falsy.
Truthy(s) == s # Undefined /\ s # ""

Digits == <<"0", "1", "2", "3", "4", "5", "6", "7", "8", "9">>

IsDigit(c) == \E d \in 1..10 : Digits[d] = c

DigitVal(c) == (CHOOSE d \in 1..10 : Digits[d] = c) - 1

RECURSIVE ParseDigits(_, _)
ParseDigits(s, acc) ==
    IF s = <<>> \/ ~IsDigit(Head(s)) THEN acc
    ELSE ParseDigits(Tail(s), 10 * acc + DigitVal(Head(s)))

\* parseInt(req.params.id): the leading digits, NaN when there are none.
parseInt(s) ==
    IF s = <<>> \/ ~IsDigit(Head(s)) THEN NaN ELSE Num(ParseDigits(s, 0))

----------------------------------------------------------------------------
\* The Map of recipes: a sequence of entries in insertion order.

Entry(k, v) == [key |-> k, val |-> v]

Keys(m) == {m[i].key : i \in 1..Len(m)}

MapHas(m, k) == k \in Keys(m)

MapGet(m, k) ==
    IF MapHas(m, k) THEN m[CHOOSE i \in 1..Len(m) : m[i].key = k].val ELSE Absent

MapSet(m, k, v) ==
    IF MapHas(m, k)
    THEN [i \in 1..Len(m) |-> IF m[i].key = k THEN Entry(k, v) ELSE m[i]]
    ELSE Append(m, Entry(k, v))

IsNotKey(e, k) == e.key # k

MapDelete(m, k) == SelectSeq(m, LAMBDA e : IsNotKey(e, k))

MapValues(m) == [i \in 1..Len(m) |-> m[i].val]


----------------------------------------------------------------------------
\* Objects and the recipe schema.

\* obj.f
Field(obj, f) == IF f \in DOMAIN obj THEN obj[f] ELSE Undefined

\* { ...a, ...b }: b's fields over a's.
Spread(a, b) ==
    [f \in (DOMAIN a) \cup (DOMAIN b) |-> IF f \in DOMAIN b THEN b[f] ELSE a[f]]

\* obj.f = v
WithField(obj, f, v) ==
    [g \in (DOMAIN obj) \cup {f} |-> IF g = f THEN v ELSE obj[g]]

NonEmptyStrings(seq) == \A i \in 1..Len(seq) : seq[i] # ""

\* insertRecipeSchema.parse(data) succeeds: every notNull column is present,
\* category is one of RECIPE_CATEGORIES, no ingredient or step is empty and
\* cookTimeMinutes is at least 1.
SchemaOk(data) ==
    /\ RequiredFields \subseteq DOMAIN data
    /\ data["category"] \in RECIPE_CATEGORIES
    /\ NonEmptyStrings(data["ingredients"])
    /\ NonEmptyStrings(data["steps"])
    /\ data["cookTimeMinutes"] >= 1

\* What parse returns: a zod object drops the keys it does not declare, and
\* id is omitted from the insert schema.
SchemaParse(data) == [f \in (DOMAIN data) \cap InsertFields |-> data[f]]

----------------------------------------------------------------------------
\* MemStorage.

\* SortCompare: the comparator's result, NaN read as +0.
\* The comparator is  new Date(b.createdAt).getTime() - new Date(a.createdAt).getTime().
NewestFirst(a, b) ==
    LET ta == DateGetTime(Field(a, "createdAt"))
        tb == DateGetTime(Field(b, "createdAt"))
    IN  IF ta.nan \/ tb.nan THEN 0 ELSE tb.v - ta.v

\* One insertion of a stable sort: x goes behind every element it does not
\* sort before.
RECURSIVE SortInsert(_, _)
SortInsert(sorted, x) ==
    IF sorted = <<>> THEN <<x>>
    ELSE LET last == sorted[Len(sorted)]
         IN  IF NewestFirst(x, last) < 0
             THEN Append(SortInsert(SubSeq(sorted, 1, Len(sorted) - 1), x), last)
             ELSE Append(sorted, x)

RECURSIVE SortFrom(_, _)
SortFrom(sorted, rest) ==
    IF rest = <<>> THEN sorted
    ELSE SortFrom(SortInsert(sorted, Head(rest)), Tail(rest))

\* Array.from(this.recipes.values()).sort(newest first)
getAllRecipes(m) == SortFrom(<<>>, MapValues(m))

getRecipeById(m, id) == MapGet(m, id)

\* A plausible bug: the id is derived from the number of stored recipes.
createRecipeBySize(m, cur, insertRecipe) ==
    LET id == Len(m) + 1
        recipe == Spread(insertRecipe, [id |-> id])
    IN  [recipes |-> MapSet(m, id, recipe), currentRecipeId |-> cur + 1,
         recipe |-> recipe]

\* const id = this.currentRecipeId++; this.recipes.set(id, {...insertRecipe, id})
createRecipe(m, cur, insertRecipe) ==
    LET id == cur
        recipe == Spread(insertRecipe, [id |-> id])
    IN  [recipes |-> MapSet(m, id, recipe), currentRecipeId |-> cur + 1,
         recipe |-> recipe]

\* A plausible bug: the spread's operands in the wrong order.
updateRecipeWriteSwapped(m, id, existingRecipe, recipeUpdate) ==
    IF existingRecipe = Absent
    THEN [recipes |-> m, result |-> Absent]
    ELSE LET updatedRecipe == Spread(recipeUpdate, existingRecipe)
         IN  [recipes |-> MapSet(m, id, updatedRecipe), result |-> updatedRecipe]

\* updateRecipe after its await: existingRecipe is what getRecipeById
\* returned when updateRecipe was called.
updateRecipeWrite(m, id, existingRecipe, recipeUpdate) ==
    IF existingRecipe = Absent
    THEN [recipes |-> m, result |-> Absent]
    ELSE LET updatedRecipe == Spread(existingRecipe, recipeUpdate)
         IN  [recipes |-> MapSet(m, id, updatedRecipe), result |-> updatedRecipe]

deleteRecipe(m, id) ==
    IF MapHas(m, id)
    THEN [recipes |-> MapDelete(m, id), result |-> TRUE]
    ELSE [recipes |-> m, result |-> FALSE]

----------------------------------------------------------------------------
\* Requests.

\* req.params.id
IdParams == { <<"1">>, <<"2">>, <<"1", "0">>, <<"a">> }

EmptyObject == [f \in {} |-> Undefined]

BaseRecipe ==
    [title |-> "Soup", category |-> "lunch", cookTimeMinutes |-> 30,
     ingredients |-> <<"2 Eggs">>, steps |-> <<"Boil">>]

\* JSON.parse(req.body.recipe) of a POST.
PostPayloads ==
    { BaseRecipe,
      WithField(BaseRecipe, "category", "snack"),
      WithField(BaseRecipe, "cookTimeMinutes", 0),
      WithField(BaseRecipe, "ingredients", <<"2 Eggs", "">>),
      WithField(BaseRecipe, "imageUrl", UploadUrl(1)),
      WithField(BaseRecipe, "id", 2),
      [title |-> "Soup"] }

\* JSON.parse(req.body.recipe) of a PUT.
PutPayloads ==
    { EmptyObject,
      [title |-> "Stew"],
      [category |-> "dinner"],
      [category |-> "snack"],
      [cookTimeMinutes |-> 0],
      [steps |-> <<"">>],
      [ingredients |-> <<"Salt", "Bacon">>],
      [id |-> 2],
      [createdAt |-> "yesterday"],
      [createdAt |-> toISOString(1)],
      [imageUrl |-> UploadUrl(1)],
      [title |-> "Stew", category |-> "dinner"] }

\* JSON.parse throws a SyntaxError on this body.
BadJson == [syntaxError |-> TRUE]

\* A handler in flight: its parameters and locals; image and present are
\* history (the file the removed recipe referred to; whether updateRecipe
\* wrote to a recipe that was in the Map at that moment).
Idle ==
    [kind |-> "idle", pc |-> "idle", id |-> 0, payload |-> EmptyObject,
     file |-> 0, existing |-> Absent, snap |-> Absent, result |-> Absent,
     deleted |-> FALSE, list |-> <<>>, image |-> 0, present |-> FALSE]

NoResponse ==
    [n |-> 0, kind |-> "none", status |-> 0, id |-> 0, body |-> Absent,
     list |-> <<>>, file |-> 0, image |-> 0, present |-> FALSE]

InFlight == {s \in Slots : reqs[s].kind # "idle"}

\* A new handler takes the first free slot.
FreeSlot ==
    CHOOSE s \in Slots :
        reqs[s].kind = "idle" /\ \A t \in Slots : t < s => reqs[t].kind # "idle"

CanStart(limit) ==
    /\ issued < MaxRequests
    /\ Cardinality(InFlight) < limit

Init ==
    /\ recipes = <<>>
    /\ currentRecipeId = 1
    /\ disk = {}
    /\ nuploads = 0
    /\ clock = 1
    /\ reqs = [s \in Slots |-> Idle]
    /\ issued = 0
    /\ faults = 0
    /\ lastResp = NoResponse
    /\ unanswered = 0
    /\ created = <<>>
    /\ deleted204 = {}

\* fs.unlinkSync may fail (EACCES, EIO, ...): the environment decides.  A
\* failure is injected only into an unlinkSync that is executed.
FaultChoices == IF faults < MaxFsFaults THEN BOOLEAN ELSE {FALSE}

Hits(fail) == IF fail THEN 1 ELSE 0

\* Date.now() does not go back.
Instants == {t \in {clock, clock + 1} : t <= MaxClock}

\* The imageUrl values a client can put into a payload: those it can have
\* read from the catalog (generated file names cannot be guessed).
KnownUrls == {Field(recipes[i].val, "imageUrl") : i \in 1..Len(recipes)}

PayloadAllowed(p) == "imageUrl" \in DOMAIN p => p["imageUrl"] \in KnownUrls

----------------------------------------------------------------------------
\* A handler segment maps the state st (the variables, and in st.req the
\* handler's own record) to the state it leaves.

Cur(r) ==
    [recipes |-> recipes, currentRecipeId |-> currentRecipeId, disk |-> disk,
     nuploads |-> nuploads, issued |-> issued, faults |-> faults,
     clock |-> clock, lastResp |-> lastResp, unanswered |-> unanswered,
     created |-> created, deleted204 |-> deleted204, req |-> r]

Commit(s, st) ==
    /\ recipes' = st.recipes
    /\ currentRecipeId' = st.currentRecipeId
    /\ disk' = st.disk
    /\ nuploads' = st.nuploads
    /\ issued' = st.issued
    /\ faults' = st.faults
    /\ lastResp' = st.lastResp
    /\ unanswered' = st.unanswered
    /\ created' = st.created
    /\ deleted204' = st.deleted204
    /\ clock' = st.clock
    /\ reqs' = [reqs EXCEPT ![s] = st.req]

\* res.status(status).json(body): the handler ends.
Send(st, status, body) ==
    [st EXCEPT !.lastResp =
                  [n |-> st.lastResp.n + 1, kind |-> st.req.kind,
                   status |-> status, id |-> st.req.id, body |-> body,
                   list |-> st.req.list, file |-> st.req.file,
                   image |-> st.req.image, present |-> st.req.present],
               !.req = Idle]

\* An exception leaves the async handler: its promise rejects, nobody
\* handles the rejection and no response is sent.
Escape(st) == [st EXCEPT !.unanswered = @ + 1, !.req = Idle]

\* fs.unlinkSync(path) succeeds.
Unlink(st, f) == [st EXCEPT !.disk = @ \ {f}]

\* fs.unlinkSync(path) throws: the path is missing, or the environment fails.
UnlinkThrows(st, f, fail) == fail \/ f \notin st.disk

Faulted(st, f, fail) ==
    IF fail /\ f \in st.disk THEN [st EXCEPT !.faults = @ + 1] ELSE st

\* The catch block of the POST and PUT handlers.
Catch(st, errorName, fail) ==
    LET reply(t) == Send(t, IF errorName = "ZodError" THEN 400 ELSE 500, Absent)
    IN  IF st.req.file # 0
        THEN IF UnlinkThrows(st, st.req.file, fail)
             THEN Escape(Faulted(st, st.req.file, fail))
             ELSE reply(Unlink(st, st.req.file))
        ELSE reply(st)

\* upload.single('image'): multer writes the file under a fresh name before
\* the handler runs.
Upload(st, hasFile) ==
    IF hasFile
    THEN [st EXCEPT !.nuploads = @ + 1, !.disk = @ \cup {st.nuploads + 1},
                    !.req.file = st.nuploads + 1, !.issued = @ + 1]
    ELSE [st EXCEPT !.issued = @ + 1]

NewRequest(kind, payload) == [Idle EXCEPT !.kind = kind, !.payload = payload]

----------------------------------------------------------------------------
\* POST /api/recipes

\* now: what Date.now() has advanced to when the handler reads it.
PostHandler(st1, now, fail) ==
    LET st0 == [st1 EXCEPT !.clock = now]
        body == st0.req.payload
        file == st0.req.file
        withImage == IF file # 0 THEN WithField(body, "imageUrl", UploadUrl(file))
                     ELSE body
        recipeData == WithField(withImage, "createdAt", toISOString(now))
        c == createRecipe(st0.recipes, st0.currentRecipeId, SchemaParse(recipeData))
    IN  IF body = BadJson THEN Catch(st0, "SyntaxError", fail)
        ELSE IF ~SchemaOk(recipeData) THEN Catch(st0, "ZodError", fail)
        ELSE [st0 EXCEPT !.recipes = c.recipes,
                         !.currentRecipeId = c.currentRecipeId,
                         !.created = Append(@, c.recipe["id"]),
                         !.req.result = c.recipe,
                         !.req.pc = "post_await"]

PostStart(limit) ==
    /\ CanStart(limit)
    /\ \E body \in PostPayloads \cup {BadJson}, hasFile \in BOOLEAN,
          now \in Instants, fail \in FaultChoices :
         LET st == PostHandler(Upload(Cur(NewRequest("POST", body)), hasFile), now, fail)
         IN  /\ PayloadAllowed(body)
             /\ st.faults = faults + Hits(fail)
             /\ Commit(FreeSlot, st)

PostRespond(s) ==
    /\ reqs[s].pc = "post_await"
    /\ Commit(s, Send(Cur(reqs[s]), 201, reqs[s].result))

----------------------------------------------------------------------------
\* PUT /api/recipes/:id

\* Up to the first await: parse the id and look the recipe up.
PutBegin(st, idParam) ==
    LET id == parseInt(idParam)
    IN  IF id.nan THEN Send(st, 400, Absent)
        ELSE [st EXCEPT !.req.id = id.v,
                        !.req.existing = getRecipeById(st.recipes, id.v),
                        !.req.pc = "put_check"]

PutStart(limit) ==
    /\ CanStart(limit)
    /\ \E idParam \in IdParams, body \in PutPayloads \cup {BadJson}, hasFile \in BOOLEAN :
         /\ PayloadAllowed(body)
         /\ Commit(FreeSlot, PutBegin(Upload(Cur(NewRequest("PUT", body)), hasFile), idParam))

\* From the existence check to the call of updateRecipe, which reads the
\* Map and awaits.
PutBody(st, failOld, failNew) ==
    LET r == st.req
        oldUrl == Field(r.existing, "imageUrl")
        old == ResolvePath(oldUrl)
        hasOld == r.file # 0 /\ Truthy(oldUrl) /\ old \in st.disk
        removed == IF hasOld THEN Unlink(st, old) ELSE st
        recipeData == IF r.file # 0
                      THEN WithField(r.payload, "imageUrl", UploadUrl(r.file))
                      ELSE r.payload
    IN  IF r.existing = Absent THEN Send(st, 404, Absent)
        ELSE IF r.payload = BadJson THEN Catch(st, "SyntaxError", failNew)
        ELSE IF hasOld /\ UnlinkThrows(st, old, failOld)
             THEN Catch(Faulted(st, old, failOld), "Error", failNew)
        ELSE [removed EXCEPT !.req.payload = recipeData,
                             !.req.snap = getRecipeById(st.recipes, r.id),
                             !.req.pc = "update_await"]

PutCheck(s) ==
    /\ reqs[s].pc = "put_check"
    /\ \E failOld \in FaultChoices, failNew \in FaultChoices :
         LET st == PutBody(Cur(reqs[s]), failOld, failNew)
         IN  /\ st.faults = faults + Hits(failOld) + Hits(failNew)
             /\ st.faults <= MaxFsFaults
             /\ Commit(s, st)

\* updateRecipe resumes after its await, merges and writes.
UpdateResume(st) ==
    LET r == st.req
        w == updateRecipeWrite(st.recipes, r.id, r.snap, r.payload)
    IN  [st EXCEPT !.recipes = w.recipes,
                   !.req.result = w.result,
                   !.req.present = r.snap # Absent /\ MapHas(st.recipes, r.id),
                   !.req.pc = "put_await"]

UpdateWrite(s) ==
    /\ reqs[s].pc = "update_await"
    /\ Commit(s, UpdateResume(Cur(reqs[s])))

\* res.json(updatedRecipe): status 200, an empty body for undefined.
PutRespond(s) ==
    /\ reqs[s].pc = "put_await"
    /\ Commit(s, Send(Cur(reqs[s]), 200, reqs[s].result))

----------------------------------------------------------------------------
\* DELETE /api/recipes/:id

DeleteBegin(st, idParam) ==
    LET id == parseInt(idParam)
    IN  IF id.nan THEN Send(st, 400, Absent)
        ELSE [st EXCEPT !.req.id = id.v,
                        !.req.existing = getRecipeById(st.recipes, id.v),
                        !.req.pc = "delete_check"]

DeleteStart(limit) ==
    /\ CanStart(limit)
    /\ \E idParam \in IdParams :
         Commit(FreeSlot, DeleteBegin(Upload(Cur(NewRequest("DELETE", EmptyObject)), FALSE), idParam))

\* From the existence check to the call of deleteRecipe, which removes the
\* recipe before the handler awaits its result.
DeleteBody(st, fail) ==
    LET r == st.req
        url == Field(r.existing, "imageUrl")
        image == ResolvePath(url)
        hasImage == Truthy(url) /\ image \in st.disk
        removed == IF hasImage THEN Unlink(st, image) ELSE st
        d == deleteRecipe(st.recipes, r.id)
        stored == getRecipeById(st.recipes, r.id)
    IN  IF r.existing = Absent THEN Send(st, 404, Absent)
        ELSE IF hasImage /\ UnlinkThrows(st, image, fail)
             THEN Send(Faulted(st, image, fail), 500, Absent)
        ELSE [removed EXCEPT !.recipes = d.recipes,
                             !.req.deleted = d.result,
                             !.req.image = ResolvePath(Field(stored, "imageUrl")),
                             !.req.pc = "delete_await"]

DeleteCheck(s) ==
    /\ reqs[s].pc = "delete_check"
    /\ \E fail \in FaultChoices :
         LET st == DeleteBody(Cur(reqs[s]), fail)
         IN  /\ st.faults = faults + Hits(fail)
             /\ Commit(s, st)

DeleteEnd(st) ==
    IF ~st.req.deleted THEN Send(st, 404, Absent)
    ELSE Send([st EXCEPT !.deleted204 = @ \cup {st.req.id}], 204, Absent)

DeleteRespond(s) ==
    /\ reqs[s].pc = "delete_await"
    /\ Commit(s, DeleteEnd(Cur(reqs[s])))

----------------------------------------------------------------------------
\* GET /api/recipes/:id  and  GET /api/recipes

GetBegin(st, idParam) ==
    LET id == parseInt(idParam)
    IN  IF id.nan THEN Send(st, 400, Absent)
        ELSE [st EXCEPT !.req.id = id.v,
                        !.req.existing = getRecipeById(st.recipes, id.v),
                        !.req.pc = "get_await"]

GetStart(limit) ==
    /\ CanStart(limit)
    /\ \E idParam \in IdParams :
         Commit(FreeSlot, GetBegin(Upload(Cur(NewRequest("GET", EmptyObject)), FALSE), idParam))

GetEnd(st) ==
    IF st.req.existing = Absent THEN Send(st, 404, Absent)
    ELSE Send(st, 200, st.req.existing)

GetRespond(s) ==
    /\ reqs[s].pc = "get_await"
    /\ Commit(s, GetEnd(Cur(reqs[s])))

ListBegin(st) ==
    [st EXCEPT !.req.list = getAllRecipes(st.recipes), !.req.pc = "list_await"]

ListStart(limit) ==
    /\ CanStart(limit)
    /\ Commit(FreeSlot, ListBegin(Upload(Cur(NewRequest("LIST", EmptyObject)), FALSE)))

ListRespond(s) ==
    /\ reqs[s].pc = "list_await"
    /\ Commit(s, Send(Cur(reqs[s]), 200, Absent))

----------------------------------------------------------------------------
\* limit: how many handlers may be in flight at once.
Step(limit) ==
    \/ PostStart(limit)
    \/ PutStart(limit)
    \/ DeleteStart(limit)
    \/ GetStart(limit)
    \/ ListStart(limit)
    \/ \E s \in Slots : PostRespond(s)
    \/ \E s \in Slots : PutCheck(s)
    \/ \E s \in Slots : UpdateWrite(s)
    \/ \E s \in Slots : PutRespond(s)
    \/ \E s \in Slots : DeleteCheck(s)
    \/ \E s \in Slots : DeleteRespond(s)
    \/ \E s \in Slots : GetRespond(s)
    \/ \E s \in Slots : ListRespond(s)

\* Handlers interleave at their awaits.
Next == Step(MaxInFlight)

Spec == Init /\ [][Next]_vars

\* One request at a time: each handler ends before the next request arrives.
SeqNext == Step(1)

SeqSpec == Init /\ [][SeqNext]_vars

----------------------------------------------------------------------------
\* The claims.

ErrorStatus == {400, 404, 500}

Stored == {recipes[i].val : i \in 1..Len(recipes)}

\* C1: a POST or PUT that carried an image file and is answered 400, 404 or
\* 500 has had its uploaded file removed from disk when the response is sent
\* (files never come back, so this is read off the last response).
C1_RejectedUploadRemoved ==
    (/\ lastResp.kind \in {"POST", "PUT"}
     /\ lastResp.status \in ErrorStatus
     /\ lastResp.file # 0)
    => lastResp.file \notin disk

\* C2: a PUT whose payload violates the recipe schema leaves the stored
\* recipe unchanged, so every stored recipe's category is one of the six
\* enumerated values.
C2_StoredCategoriesValid ==
    \A r \in Stored : r["category"] \in RECIPE_CATEGORIES

\* C3: the ids create returns are 1, 2, 3, ... in order: each is one greater
\* than the one before, whatever was deleted, updated or rejected in between,
\* and none is assigned twice.
C3_IdsSequential ==
    /\ \A i \in 1..Len(created) : created[i] = i
    /\ currentRecipeId = Len(created) + 1

\* A create that follows the answered DELETE of recipe 1 returned id 2.
C3_CreateAfterDelete ==
    /\ lastResp.kind = "POST"
    /\ lastResp.status = 201
    /\ lastResp.body["id"] = 2
    /\ 1 \in deleted204
    /\ ~MapHas(recipes, 1)

\* C4: no two stored recipes carry the same id, and the recipe stored under
\* key k has id field k.
C4_IdsUniqueAndKeyed ==
    /\ \A i \in 1..Len(recipes) : recipes[i].val["id"] = recipes[i].key
    /\ \A i, j \in 1..Len(recipes) :
         recipes[i].val["id"] = recipes[j].val["id"] => i = j

\* C5: every request received is in flight or has been answered exactly
\* once: no failure leaves a handler without a response being sent.
C5_EveryRequestAnswered ==
    /\ unanswered = 0
    /\ issued = lastResp.n + Cardinality(InFlight)

\* C6: once a DELETE of an id was answered 204 the recipe is and stays absent
\* from the store (so every later GET of the id finds nothing), and the image
\* file the removed recipe referred to is not on disk.
C6_DeletedStaysDeleted ==
    /\ \A id \in deleted204 : ~MapHas(recipes, id)
    /\ (lastResp.kind = "DELETE" /\ lastResp.status = 204 /\ lastResp.image # 0)
         => lastResp.image \notin disk

\* C7: when updateRecipe resumes and writes, the next id is unchanged; for an
\* id that was unknown when update was called nothing changes and the result
\* is absent; otherwise every other recipe is unchanged and the recipe written
\* has exactly the payload's fields replaced (whole values, never merged) and
\* every other field as it was when update was called.
C7_UpdateFrame ==
    [][\A s \in Slots :
         (reqs[s].pc = "update_await" /\ reqs'[s].pc = "put_await") =>
            LET r == reqs[s]
                u == MapGet(recipes', r.id)
            IN  /\ currentRecipeId' = currentRecipeId
                /\ IF r.snap = Absent
                   THEN recipes' = recipes /\ reqs'[s].result = Absent
                   ELSE /\ Keys(recipes') = Keys(recipes) \cup {r.id}
                        /\ \A k \in Keys(recipes) \ {r.id} :
                             MapGet(recipes', k) = MapGet(recipes, k)
                        /\ DOMAIN u = (DOMAIN r.snap) \cup (DOMAIN r.payload)
                        /\ \A f \in DOMAIN u :
                             u[f] = IF f \in DOMAIN r.payload THEN r.payload[f]
                                    ELSE r.snap[f]
                        /\ reqs'[s].result = u]_vars

\* A PUT of only the title was answered with the title replaced and the
\* other fields as created.
C7_TitleOnlyUpdated ==
    /\ lastResp.kind = "PUT"
    /\ lastResp.status = 200
    /\ lastResp.body # Absent
    /\ lastResp.body["title"] = "Stew"
    /\ lastResp.body["category"] = "lunch"
    /\ lastResp.body["ingredients"] = <<"2 Eggs">>
    /\ lastResp.body["cookTimeMinutes"] = 30

\* The place of a createdAt string in the order of strings: ISO strings of
\* one format sort as their instants do, and "yesterday" sorts after all of
\* them ("y" > "2").
StringRank(s) ==
    IF DateGetTime(s).nan THEN Len(IsoTable) + 1 ELSE DateGetTime(s).v

\* C8: list() returns each stored recipe exactly once and no others, and each
\* result's createdAt is >= that of the result after it.
C8_ListNewestFirst ==
    LET l == getAllRecipes(recipes)
    IN  /\ Len(l) = Len(recipes)
        /\ \A i \in 1..Len(recipes) :
             Cardinality({j \in 1..Len(l) : l[j] = recipes[i].val}) =
             Cardinality({j \in 1..Len(recipes) : recipes[j].val = recipes[i].val})
        /\ \A i \in 1..(Len(l) - 1) :
             StringRank(l[i]["createdAt"]) >= StringRank(l[i + 1]["createdAt"])

\* C9: a handler's step that removes a file from disk leaves no stored recipe
\* referring to that file, other than the recipe the handler was asked to
\* delete or to give a new image.
C9_UnlinkOnlyOwnImage ==
    [][\A s \in Slots : \A f \in disk \ disk' :
         reqs[s] # reqs'[s] =>
            \A i \in 1..Len(recipes') :
               recipes'[i].key # reqs[s].id =>
                  ResolvePath(Field(recipes'[i].val, "imageUrl")) # f]_vars

\* C10: a PUT is answered 200 only if updateRecipe wrote to a recipe that was
\* in the store at that moment, and the body is the updated recipe.
C10_PutOkOnlyIfApplied ==
    (lastResp.kind = "PUT" /\ lastResp.status = 200)
    => (lastResp.present /\ lastResp.body # Absent)

=============================================================================
